---------------------------- MODULE Spec2Model ----------------------------
(***************************************************************************)
(* Model of tools/medals/fetch_medals.py and tools/medals/etag_check.py.   *)
(*                                                                         *)
(* A text is a sequence of characters; a character is a one-element token: *)
(* printable ASCII stands for itself, "LF" is the newline, "NBSP" is       *)
(* U+00A0, "DAGGER"/"DDAGGER" are U+2020/U+2021, "u_uml" is U+00FC,        *)
(* "U_uml" is U+00DC, "c_ced" is U+00E7, "C_ced" is U+00C7, "o_circ" is     *)
(* U+00F4, "O_circ" is U+00D4 and "COMB" is a combining mark produced by   *)
(* NFKD decomposition.                                                     *)
(***************************************************************************)
EXTENDS Integers, Sequences, FiniteSets, TLC

VARIABLES
    \* normalize_text applied twice (SpecNorm)
    nText, nOnce, nTwice, nPc,
    \* name_key on a label and on a case/diacritic variant of it (SpecKey)
    kLabel, kVariant, kKey1, kKey2, kPc,
    \* add_eu_row and compute_rank on a list of rows (SpecRank)
    rIn, rConfig, rRows, rRanked, rPc,
    \* parse_medal_table on a table and a reference file (SpecParse)
    pTable, pCsv, pOut, pPc,
    \* runs of fetch_medals.py and etag_check.py over the data files (Spec)
    iocCsv,      \* data/ioc_codes.csv: its rows
    euJson,      \* data/eu_members.json: its "members"
    src,         \* the source page: its revision, response headers and table
    metaFile,    \* data/medals_meta.json: <<>> when absent, else <<content>>
    medalsCsv,   \* data/medals_eu.csv: <<>> when absent, else <<rows>>
    medalsJson,  \* data/medals_eu.json: <<>> when absent, else <<payload>>
    now,         \* the clock read by now_utc_iso
    run,         \* the last run of fetch_medals.py: what it was given and returned
    ghOutput     \* the last line etag_check.py wrote to $GITHUB_OUTPUT

normVars == <<nText, nOnce, nTwice, nPc>>
keyVars  == <<kLabel, kVariant, kKey1, kKey2, kPc>>
rankVars == <<rIn, rConfig, rRows, rRanked, rPc>>
parseVars == <<pTable, pCsv, pOut, pPc>>
runVars   == <<iocCsv, euJson, src, metaFile, medalsCsv, medalsJson, now, run, ghOutput>>
vars      == <<normVars, keyVars, rankVars, parseVars, runVars>>

None == "None"

-----------------------------------------------------------------------------
(* Characters *)

Uppers == <<"A","B","C","D","E","F","G","H","I","J","K","L","M",
            "N","O","P","Q","R","S","T","U","V","W","X","Y","Z">>
Lowers == <<"a","b","c","d","e","f","g","h","i","j","k","l","m",
            "n","o","p","q","r","s","t","u","v","w","x","y","z">>
Digits == <<"0","1","2","3","4","5","6","7","8","9">>

Range(s) == {s[i] : i \in 1..Len(s)}

IndexOf(s, c) == CHOOSE i \in 1..Len(s) : s[i] = c

\* str.lower() on one character
LowerChar(c) ==
    IF c \in Range(Uppers) THEN Lowers[IndexOf(Uppers, c)]
    ELSE IF c = "U_uml" THEN "u_uml"
    ELSE IF c = "C_ced" THEN "c_ced"
    ELSE IF c = "O_circ" THEN "o_circ"
    ELSE c

\* str.upper() on one character (used only to build case variants of inputs)
UpperChar(c) ==
    IF c \in Range(Lowers) THEN Uppers[IndexOf(Lowers, c)]
    ELSE IF c = "u_uml" THEN "U_uml"
    ELSE IF c = "c_ced" THEN "C_ced"
    ELSE IF c = "o_circ" THEN "O_circ"
    ELSE c

\* unicodedata.normalize("NFKD", c) on one character
Nfkd(c) ==
    CASE c = "u_uml" -> <<"u", "COMB">>
      [] c = "U_uml" -> <<"U", "COMB">>
      [] c = "c_ced" -> <<"c", "COMB">>
      [] c = "C_ced" -> <<"C", "COMB">>
      [] c = "o_circ" -> <<"o", "COMB">>
      [] c = "O_circ" -> <<"O", "COMB">>
      [] c = "NBSP"  -> <<" ">>
      [] OTHER       -> <<c>>

\* unicodedata.combining(c) # 0
IsCombining(c) == c = "COMB"

\* the class \s of the re module on str patterns
IsSpace(c) == c \in {" ", "LF", "NBSP"}

\* the class [a-zA-Z0-9 ]
IsKeyChar(c) == c \in Range(Uppers) \cup Range(Lowers) \cup Range(Digits) \cup {" "}

RECURSIVE MapText(_, _)
\* the characters of t, each replaced by F(c)
MapText(F(_), t) ==
    IF t = <<>> THEN <<>> ELSE <<F(Head(t))>> \o MapText(F, Tail(t))

RECURSIVE FilterText(_, _)
\* the characters of t that satisfy Keep
FilterText(Keep(_), t) ==
    IF t = <<>> THEN <<>>
    ELSE (IF Keep(Head(t)) THEN <<Head(t)>> ELSE <<>>) \o FilterText(Keep, Tail(t))

\* str.lower()
LowerText(t) == MapText(LowerChar, t)

\* ord(c) for the characters of the model
CodePoint(c) ==
    IF c \in Range(Uppers) THEN 64 + IndexOf(Uppers, c)
    ELSE IF c \in Range(Lowers) THEN 96 + IndexOf(Lowers, c)
    ELSE IF c \in Range(Digits) THEN 47 + IndexOf(Digits, c)
    ELSE CASE c = "LF" -> 10 [] c = " " -> 32 [] c = "'" -> 39 [] c = "*" -> 42
           [] c = "," -> 44 [] c = "[" -> 91 [] c = "]" -> 93 [] c = "NBSP" -> 160
           [] c = "C_ced" -> 199 [] c = "O_circ" -> 212 [] c = "U_uml" -> 220
           [] c = "c_ced" -> 231 [] c = "o_circ" -> 244 [] c = "u_uml" -> 252
           [] c = "COMB" -> 776 [] c = "DAGGER" -> 8224 [] c = "DDAGGER" -> 8225

RECURSIVE TextLess(_, _)
\* a < b on str: by code point, a proper prefix first
TextLess(a, b) ==
    IF b = <<>> THEN FALSE
    ELSE IF a = <<>> THEN TRUE
    ELSE IF Head(a) # Head(b) THEN CodePoint(Head(a)) < CodePoint(Head(b))
    ELSE TextLess(Tail(a), Tail(b))

\* str.startswith
StartsWith(t, p) == Len(t) >= Len(p) /\ SubSeq(t, 1, Len(p)) = p

-----------------------------------------------------------------------------
(* normalize_text *)

\* the end of the match of \[.*?\] at the head of t, or 0: the first "]"
\* after the "[", provided no newline stands between ("." excludes "\n")
BracketEnd(t) ==
    IF t # <<>> /\ Head(t) = "["
       /\ \E k \in 2..Len(t) : t[k] = "]" /\ \A m \in 2..(k-1) : t[m] # "LF"
    THEN CHOOSE k \in 2..Len(t) :
            /\ t[k] = "]"
            /\ \A m \in 2..(k-1) : t[m] # "LF" /\ t[m] # "]"
    ELSE 0

RECURSIVE SubBrackets(_)
\* re.sub(r"\[.*?\]", "", text): leftmost non-overlapping matches removed
SubBrackets(t) ==
    IF t = <<>> THEN <<>>
    ELSE IF BracketEnd(t) > 0 THEN SubBrackets(SubSeq(t, BracketEnd(t) + 1, Len(t)))
    ELSE <<Head(t)>> \o SubBrackets(Tail(t))

\* text.replace("\xa0", " ")
ReplaceNbsp(t) == MapText(LAMBDA c : IF c = "NBSP" THEN " " ELSE c, t)

\* text.replace("†", "").replace("‡", "").replace("*", "")
DropGlyphs(t) == FilterText(LAMBDA c : c \notin {"DAGGER", "DDAGGER", "*"}, t)

RECURSIVE CollapseSpaces(_)
\* re.sub(r"\s+", " ", text)
CollapseSpaces(t) ==
    IF t = <<>> THEN <<>>
    ELSE IF IsSpace(Head(t))
         THEN IF Len(t) > 1 /\ IsSpace(t[2])
              THEN CollapseSpaces(Tail(t))
              ELSE <<" ">> \o CollapseSpaces(Tail(t))
         ELSE <<Head(t)>> \o CollapseSpaces(Tail(t))

RECURSIVE LStrip(_)
LStrip(t) == IF t # <<>> /\ IsSpace(Head(t)) THEN LStrip(Tail(t)) ELSE t

RECURSIVE RStrip(_)
RStrip(t) ==
    IF t # <<>> /\ IsSpace(t[Len(t)]) THEN RStrip(SubSeq(t, 1, Len(t) - 1)) ELSE t

\* str.strip()
Strip(t) == RStrip(LStrip(t))

\* a value of None is the empty text here: both normalize to ""
normalize_text(value) ==
    Strip(CollapseSpaces(DropGlyphs(ReplaceNbsp(SubBrackets(value)))))


-----------------------------------------------------------------------------
(* name_key *)

NAME_OVERRIDES == {
    <<<<"C","z","e","c","h","i","a">>,
      <<"C","z","e","c","h"," ","R","e","p","u","b","l","i","c">>>>,
    <<<<"T","u_uml","r","k","i","y","e">>,
      <<"T","u","r","k","e","y">>>>,
    <<<<"U","n","i","t","e","d"," ","S","t","a","t","e","s">>,
      <<"U","n","i","t","e","d"," ","S","t","a","t","e","s"," ","o","f"," ","A","m","e","r","i","c","a">>>>,
    <<<<"U","n","i","t","e","d"," ","S","t","a","t","e","s"," ","o","f"," ","A","m","e","r","i","c","a">>,
      <<"U","n","i","t","e","d"," ","S","t","a","t","e","s"," ","o","f"," ","A","m","e","r","i","c","a">>>>,
    <<<<"G","r","e","a","t"," ","B","r","i","t","a","i","n">>,
      <<"G","r","e","a","t"," ","B","r","i","t","a","i","n">>>>,
    <<<<"R","u","s","s","i","a">>,
      <<"R","u","s","s","i","a","n"," ","F","e","d","e","r","a","t","i","o","n">>>>,
    <<<<"K","o","r","e","a">>,
      <<"S","o","u","t","h"," ","K","o","r","e","a">>>>,
    <<<<"K","o","r","e","a",","," ","S","o","u","t","h">>,
      <<"S","o","u","t","h"," ","K","o","r","e","a">>>>,
    <<<<"K","o","r","e","a",","," ","N","o","r","t","h">>,
      <<"N","o","r","t","h"," ","K","o","r","e","a">>>>,
    <<<<"P","e","o","p","l","e","'","s"," ","R","e","p","u","b","l","i","c"," ","o","f"," ","C","h","i","n","a">>,
      <<"C","h","i","n","a">>>>,
    <<<<"H","o","n","g"," ","K","o","n","g">>,
      <<"H","o","n","g"," ","K","o","n","g",","," ","C","h","i","n","a">>>>,
    <<<<"C","o_circ","t","e"," ","d","'","I","v","o","i","r","e">>,
      <<"C","o","t","e"," ","d","'","I","v","o","i","r","e">>>>,
    <<<<"C","u","r","a","c_ced","a","o">>,
      <<"C","u","r","a","c","a","o">>>> }

\* NAME_OVERRIDES.get(text, text)
NameOverride(t) ==
    IF \E p \in NAME_OVERRIDES : p[1] = t
    THEN (CHOOSE p \in NAME_OVERRIDES : p[1] = t)[2]
    ELSE t

RECURSIVE NfkdText(_)
\* unicodedata.normalize("NFKD", text)
NfkdText(t) == IF t = <<>> THEN <<>> ELSE Nfkd(Head(t)) \o NfkdText(Tail(t))

\* "".join([c for c in text if not unicodedata.combining(c)])
DropCombining(t) == FilterText(LAMBDA c : ~IsCombining(c), t)

\* re.sub(r"[^a-zA-Z0-9 ]+", "", text)
KeepKeyChars(t) == FilterText(IsKeyChar, t)

name_key(value) ==
    Strip(LowerText(KeepKeyChars(DropCombining(NfkdText(
        NameOverride(normalize_text(value)))))))

-----------------------------------------------------------------------------
(* load_ioc_codes *)

\* dict.get(key, default) on a dict held as a function
DictGet(d, key, default) == IF key \in DOMAIN d THEN d[key] ELSE default

\* d[key] = value
DictSet(d, key, value) == (key :> value) @@ d

EmptyDict == [k \in {} |-> <<>>]

RECURSIVE LoadIocLoop(_, _, _)
\* the loop of load_ioc_codes over the rows of ioc_codes.csv
LoadIocLoop(csv, noc_to_name, name_to_noc) ==
    IF csv = <<>> THEN [noc_to_name |-> noc_to_name, name_to_noc |-> name_to_noc]
    ELSE LET noc  == normalize_text(Head(csv).noc)
             name == normalize_text(Head(csv).country_name)
         IN  IF noc = <<>> \/ name = <<>>
             THEN LoadIocLoop(Tail(csv), noc_to_name, name_to_noc)
             ELSE LoadIocLoop(Tail(csv), DictSet(noc_to_name, noc, name),
                              DictSet(name_to_noc, name_key(name), noc))

load_ioc_codes(csv) == LoadIocLoop(csv, EmptyDict, EmptyDict)

-----------------------------------------------------------------------------
(* parse_medal_table: the loop over the rows of the table picked, whose       *)
(* columns are already identified (an absent column reads as the empty text) *)

IsDigit(c) == c \in Range(Digits)

RECURSIVE DecimalValue(_)
\* int(text) for a text of digits
DecimalValue(t) ==
    IF t = <<>> THEN 0
    ELSE 10 * DecimalValue(SubSeq(t, 1, Len(t) - 1)) + (IndexOf(Digits, t[Len(t)]) - 1)

to_int(value) ==
    LET text == FilterText(IsDigit, normalize_text(value))
    IN  IF text # <<>> THEN DecimalValue(text) ELSE 0

Total == <<"t","o","t","a","l">>

RECURSIVE SortTexts(_)
\* sorted(set(texts))
SortTexts(set) ==
    IF set = {} THEN <<>>
    ELSE LET least == CHOOSE t \in set : \A u \in set \ {t} : TextLess(t, u)
         IN  <<least>> \o SortTexts(set \ {least})

\* the total always recomputed
repair_total_always(total, gold, silver, bronze) == gold + silver + bronze

\* if total == 0: total = gold + silver + bronze
repair_total(total, gold, silver, bronze) ==
    IF total = 0 THEN gold + silver + bronze ELSE total

\* the NOC always looked up by name
resolve_noc_by_name(noc_raw, country, name_to_noc) ==
    DictGet(name_to_noc, name_key(country), <<>>)

\* noc = noc_raw; if not noc or len(noc) != 3: noc = name_to_noc.get(name_key(country))
\* (a missing key gives None, which is as false as the empty text)
resolve_noc(noc_raw, country, name_to_noc) ==
    IF noc_raw = <<>> \/ Len(noc_raw) # 3
    THEN DictGet(name_to_noc, name_key(country), <<>>)
    ELSE noc_raw

RECURSIVE ParseLoop(_, _, _, _, _)
\* the loop of parse_medal_table over df.iterrows(), with its rows and unmapped
ParseLoop(df, name_to_noc, noc_to_name, rows, unmapped) ==
    IF df = <<>> THEN [rows |-> rows, unmapped |-> SortTexts(Range(unmapped))]
    ELSE
    LET row         == Head(df)
        country_raw == normalize_text(row.nation)
        noc_raw     == normalize_text(row.noc)
        country     == NameOverride(country_raw)
        gold        == to_int(row.gold)
        silver      == to_int(row.silver)
        bronze      == to_int(row.bronze)
        total       == repair_total(to_int(row.total), gold, silver, bronze)
        noc         == resolve_noc(noc_raw, country, name_to_noc)
        country_name == DictGet(noc_to_name, noc, country)
    IN  IF country = <<>> \/ StartsWith(LowerText(country), Total)
        THEN ParseLoop(Tail(df), name_to_noc, noc_to_name, rows, unmapped)
        ELSE IF noc = <<>>
        THEN ParseLoop(Tail(df), name_to_noc, noc_to_name, rows,
                       Append(unmapped, country))
        ELSE ParseLoop(Tail(df), name_to_noc, noc_to_name,
                       Append(rows, [rank |-> None, country |-> country_name,
                                     noc |-> noc, gold |-> gold, silver |-> silver,
                                     bronze |-> bronze, total |-> total]),
                       unmapped)

parse_medal_table(df, name_to_noc, noc_to_name) ==
    ParseLoop(df, name_to_noc, noc_to_name, <<>>, <<>>)

-----------------------------------------------------------------------------
(* compute_rank *)

\* (row["gold"], row["silver"], row["bronze"], row["total"])
MedalKey(r) == <<r.gold, r.silver, r.bronze, r.total>>

RECURSIVE TupleLess(_, _)
\* a < b on tuples of integers of one length
TupleLess(a, b) ==
    IF a = <<>> THEN FALSE
    ELSE IF Head(a) # Head(b) THEN Head(a) < Head(b)
    ELSE TupleLess(Tail(a), Tail(b))

\* key(a) < key(b) for key = (-gold, -silver, -bronze, -total, country)
SortKeyLess(a, b) ==
    IF MedalKey(a) # MedalKey(b) THEN TupleLess(MedalKey(b), MedalKey(a))
    ELSE TextLess(a.country, b.country)

\* x put into the sorted list after every element that is not greater
InsertSorted(sorted, x) ==
    LET k == Cardinality({i \in 1..Len(sorted) : ~SortKeyLess(x, sorted[i])})
    IN  SubSeq(sorted, 1, k) \o <<x>> \o SubSeq(sorted, k + 1, Len(sorted))

RECURSIVE SortedRows(_)
\* sorted(rows, key=...): stable
SortedRows(rows) ==
    IF rows = <<>> THEN <<>>
    ELSE InsertSorted(SortedRows(SubSeq(rows, 1, Len(rows) - 1)), rows[Len(rows)])

RECURSIVE AssignRanks(_, _, _, _)
\* the loop of compute_rank from position idx on, with the loop's rank and prev_key
AssignRanks(rows, idx, rank, prev_key) ==
    IF idx > Len(rows) THEN rows
    ELSE LET key     == MedalKey(rows[idx])
             newRank == IF <<key>> # prev_key THEN idx ELSE rank
         IN  AssignRanks([rows EXCEPT ![idx].rank = newRank], idx + 1, newRank, <<key>>)

\* compute_rank without its sort
compute_rank_unsorted(rows) == AssignRanks(rows, 1, 0, <<>>)

compute_rank(rows) == AssignRanks(SortedRows(rows), 1, 0, <<>>)

-----------------------------------------------------------------------------
(* load_eu_members, add_eu_row *)

EU27 == <<"E","U","2","7">>
EuropeanUnion == <<"E","u","r","o","p","e","a","n"," ","U","n","i","o","n">>

\* load_eu_members without its eu_member filter
load_eu_members_unfiltered(config) == config

\* [m for m in data.get("members", []) if m.get("eu_member")]
load_eu_members(config) == {m \in config : m.eu_member}

RECURSIVE SumOver(_, _, _)
\* sum(F(r) for r in rows if r["noc"] in nocs)
SumOver(F(_), rows, nocs) ==
    IF rows = <<>> THEN 0
    ELSE (IF Head(rows).noc \in nocs THEN F(Head(rows)) ELSE 0)
         + SumOver(F, Tail(rows), nocs)

add_eu_row(rows, eu_members) ==
    LET eu_nocs == {m.noc : m \in {x \in eu_members : x.noc # <<>>}}
        gold    == SumOver(LAMBDA r : r.gold, rows, eu_nocs)
        silver  == SumOver(LAMBDA r : r.silver, rows, eu_nocs)
        bronze  == SumOver(LAMBDA r : r.bronze, rows, eu_nocs)
        total   == gold + silver + bronze
    IN  [i \in 1..Len(rows) |-> [is_eu |-> rows[i].noc \in eu_nocs] @@ rows[i]]
        \o << [rank |-> None, country |-> EuropeanUnion, noc |-> EU27,
               gold |-> gold, silver |-> silver, bronze |-> bronze,
               total |-> total, is_eu |-> TRUE] >>

-----------------------------------------------------------------------------
(* main of fetch_medals.py, write_outputs, and main of etag_check.py *)

MEDAL_URL == "https://en.wikipedia.org/w/rest.php/v1/page/2026_Winter_Olympics_medal_table/html"

\* the default of load_json(META_JSON, ...) in main; None reads as the empty text
DefaultMeta ==
    [last_etag |-> <<>>, last_modified |-> <<>>, last_revision_id |-> <<>>,
     last_update_utc |-> None, source_url |-> MEDAL_URL, unmapped_countries |-> <<>>]

\* load_json(path, default) on a file held as <<>> or <<content>>
load_json(file, default) == IF file # <<>> THEN file[1] ELSE default

\* save_json(path, data)
save_json(data) == <<data>>

\* change detection that does not look at --force
NoChange_ignoring_force(force, meta, etag, last_modified) ==
    IF etag # <<>> /\ meta.last_etag = etag THEN "ETag"
    ELSE IF last_modified # <<>> /\ meta.last_modified = last_modified THEN "Last-Modified"
    ELSE "no"

\* the change-detection branch of main: which header, if any, ends the run
NoChange(force, meta, etag, last_modified) ==
    IF force THEN "no"
    ELSE IF etag # <<>> /\ meta.last_etag = etag THEN "ETag"
    ELSE IF last_modified # <<>> /\ meta.last_modified = last_modified THEN "Last-Modified"
    ELSE "no"

\* write_outputs(rows, meta, unmapped): the three files it writes
write_outputs(rows, meta, unmapped, clock) ==
    LET ranked == compute_rank(rows)
    IN  [medalsCsv  |-> <<ranked>>,
         medalsJson |-> << [last_updated_utc |-> clock, source_url |-> MEDAL_URL,
                            source_revision_id |-> meta.last_revision_id,
                            source_retrieved_at_utc |-> meta.last_update_utc,
                            rows |-> ranked] >>,
         metaFile   |-> save_json([meta EXCEPT !.unmapped_countries = unmapped])]

\* the run aborted without saving the metadata
abort_unmapped_unsaved(meta, parsed, files) ==
    [exit |-> 1, said |-> "Unmapped countries", rows |-> parsed.rows,
     unmapped |-> parsed.unmapped, metaFile |-> files.metaFile,
     medalsCsv |-> files.medalsCsv, medalsJson |-> files.medalsJson]

\* the branch of main taken when parse_medal_table returns unmapped labels:
\* the metadata is saved, then RuntimeError ends the run with exit code 1
abort_unmapped(meta, parsed, files) ==
    [exit |-> 1, said |-> "Unmapped countries", rows |-> parsed.rows,
     unmapped |-> parsed.unmapped,
     metaFile |-> save_json([meta EXCEPT !.unmapped_countries = parsed.unmapped]),
     medalsCsv |-> files.medalsCsv, medalsJson |-> files.medalsJson]

\* main(): the files after the run, its exit code and what it printed or raised
main(force, files, page, csv, members, clock) ==
    LET meta0  == load_json(files.metaFile, DefaultMeta)
        etag   == page.etag
        last_modified == page.last_modified
        hit    == NoChange(force, meta0, etag, last_modified)
        meta1  == [meta0 EXCEPT !.last_etag = etag,
                                !.last_modified = last_modified,
                                !.last_revision_id = IF etag # <<>> THEN etag ELSE @,
                                !.last_update_utc = clock,
                                !.source_url = MEDAL_URL]
        maps   == load_ioc_codes(csv)
        parsed == parse_medal_table(page.table, maps.name_to_noc, maps.noc_to_name)
        rows   == add_eu_row(parsed.rows, load_eu_members(members))
        out    == write_outputs(rows, meta1, parsed.unmapped, clock)
    IN  IF hit # "no"
        THEN [exit |-> 0, said |-> "No changes detected", rows |-> <<>>,
              unmapped |-> <<>>, metaFile |-> files.metaFile,
              medalsCsv |-> files.medalsCsv, medalsJson |-> files.medalsJson]
        ELSE IF parsed.unmapped # <<>>
        THEN abort_unmapped(meta1, parsed, files)
        ELSE [exit |-> 0, said |-> "Medal table updated", rows |-> out.medalsCsv[1],
              unmapped |-> parsed.unmapped, metaFile |-> out.metaFile,
              medalsCsv |-> out.medalsCsv, medalsJson |-> out.medalsJson]

\* main() of etag_check.py: the value of changed
etag_check(file, page) ==
    LET meta == load_json(file, EmptyDict)
    IN  IF page.etag # <<>> /\ DictGet(meta, "last_etag", <<>>) = page.etag THEN FALSE
        ELSE IF page.last_modified # <<>>
                /\ DictGet(meta, "last_modified", <<>>) = page.last_modified THEN FALSE
        ELSE TRUE

-----------------------------------------------------------------------------
(* Inputs *)

MaxLen == 4

NormAlphabet == {"[", "]", "a", " ", "LF", "NBSP", "*"}

TextsUpTo(A, n) == UNION {[1..m -> A] : m \in 0..n}

KeyLabels == {
    <<"T","u_uml","r","k","i","y","e">>,
    <<"C","u","r","a","c_ced","a","o">>,
    <<"P","e","r","u">> }

\* the character with its letter case changed
SwapCase(c) == IF LowerChar(c) # c THEN LowerChar(c) ELSE UpperChar(c)

\* the text with its diacritics removed
StripMarks(t) == MapText(LAMBDA c : Head(Nfkd(c)), t)

\* rows handed to add_eu_row
MaxRows == 3

RankNocs == {<<"A","U","T">>, <<"B","E","L">>, <<"C","H","N">>}

RankCountry(noc) ==
    CASE noc = <<"A","U","T">> -> <<"a">>
      [] noc = <<"B","E","L">> -> <<"B">>
      [] noc = <<"C","H","N">> -> <<"B","a">>

RankMedals == { <<1, 0, 0, 1>>, <<0, 1, 0, 1>>, <<0, 0, 1, 1>>, <<1, 0, 0, 5>> }

RankRowPool ==
    { [rank |-> None, country |-> RankCountry(n), noc |-> n,
       gold |-> m[1], silver |-> m[2], bronze |-> m[3], total |-> m[4]] :
      n \in RankNocs, m \in RankMedals }

\* the "members" of eu_members.json
EuConfigs == {
    {},
    { [noc |-> <<"A","U","T">>, eu_member |-> TRUE] },
    { [noc |-> <<"B","E","L">>, eu_member |-> TRUE],
      [noc |-> <<"C","H","N">>, eu_member |-> FALSE] },
    { [noc |-> <<"A","U","T">>, eu_member |-> TRUE],
      [noc |-> <<"B","E","L">>, eu_member |-> TRUE],
      [noc |-> <<"C","H","N">>, eu_member |-> FALSE] } }

\* rows of the medal table handed to parse_medal_table
MaxParseRows == 1

Korea      == <<"K","o","r","e","a">>
SouthKorea == <<"S","o","u","t","h"," ","K","o","r","e","a">>
Peru       == <<"P","e","r","u">>
PeruNoted  == <<"P","e","r","u","*">>
Totals     == <<"T","o","t","a","l","s">>
KOR        == <<"K","O","R">>
PER        == <<"P","E","R">>
XYZ        == <<"X","Y","Z">>

NationCells == {Korea, SouthKorea, PeruNoted, Totals, <<>>}
NocCells    == {<<>>, KOR, XYZ, EU27}

\* the gold, silver, bronze and total cells of a row
MedalCells == {
    << <<"1">>, <<"1">>, <<"0">>, <<"0">> >>,
    << <<"1">>, <<"1">>, <<"0">>, <<"5">> >>,
    << <<"1">>, <<"0">>, <<"2">>, <<>> >>,
    << <<"2","[","1","]">>, <<"1">>, <<"1">>, <<"a">> >> }

ParseRowPool ==
    { [nation |-> n, noc |-> c, gold |-> m[1], silver |-> m[2],
       bronze |-> m[3], total |-> m[4]] :
      n \in NationCells, c \in NocCells, m \in MedalCells }

\* the rows of ioc_codes.csv (never empty: maybe_refresh_ioc_codes rebuilds it)
RefRows == << [noc |-> KOR, country_name |-> SouthKorea],
              [noc |-> PER, country_name |-> Peru] >>

RefFiles == { <<RefRows[2]>>, RefRows }

\* runs of fetch_medals.py
MaxRuns == 3

\* revisions of the source page
Revisions == {1, 2}

RowKorea ==
    [nation |-> Korea, noc |-> <<>>, gold |-> <<"1">>, silver |-> <<"1">>,
     bronze |-> <<"0">>, total |-> <<"0">>]
RowSouthKorea ==
    [nation |-> SouthKorea, noc |-> KOR, gold |-> <<"2">>, silver |-> <<"0">>,
     bronze |-> <<"0">>, total |-> <<"2">>]
RowPeru ==
    [nation |-> PeruNoted, noc |-> <<>>, gold |-> <<"1">>, silver |-> <<"0">>,
     bronze |-> <<"1">>, total |-> <<>>]
RowTotals ==
    [nation |-> Totals, noc |-> <<>>, gold |-> <<"4">>, silver |-> <<"1">>,
     bronze |-> <<"1">>, total |-> <<"6">>]

\* the tables of the page's revisions
RunTables == { <<RowKorea>>, <<RowSouthKorea, RowPeru>>, <<RowPeru, RowTotals>>,
               <<RowKorea, RowSouthKorea>>, <<RowSouthKorea, RowTotals>> }

RunRefFiles == { <<RefRows[1]>>, <<RefRows[2]>>, RefRows }

RunEuConfigs == { {[noc |-> KOR, eu_member |-> TRUE], [noc |-> PER, eu_member |-> FALSE]} }

\* which of ETag and Last-Modified the server sends
HeaderModes == {"both", "etag", "last-modified", "none"}

\* the headers of revision rev, the empty text for a header not sent
ETagOf(rev, mode) ==
    IF mode \in {"both", "etag"} THEN <<"W", Digits[rev + 1]>> ELSE <<>>
LastModifiedOf(rev, mode) ==
    IF mode \in {"both", "last-modified"} THEN <<"d", Digits[rev + 1]>> ELSE <<>>

Page(rev, mode, table) ==
    [rev |-> rev, mode |-> mode, etag |-> ETagOf(rev, mode),
     last_modified |-> LastModifiedOf(rev, mode), table |-> table]

NoSource == Page(0, "none", <<>>)
NoRun == [n |-> 0, force |-> FALSE, exit |-> 0, said |-> "", rev |-> 0,
          rows |-> <<>>, unmapped |-> <<>>]

-----------------------------------------------------------------------------
(* SpecNorm: normalize_text applied to a text and to its own result *)

Normalize ==
    /\ nPc = "input"
    /\ nOnce' = normalize_text(nText)
    /\ nPc' = "once"
    /\ UNCHANGED <<nText, nTwice, keyVars, rankVars, parseVars, runVars>>

Renormalize ==
    /\ nPc = "once"
    /\ nTwice' = normalize_text(nOnce)
    /\ nPc' = "twice"
    /\ UNCHANGED <<nText, nOnce, keyVars, rankVars, parseVars, runVars>>

-----------------------------------------------------------------------------
(* SpecKey: name_key of a label and of a case/diacritic variant of it *)

ChangeCase ==
    /\ kPc = "input"
    /\ \E i \in 1..Len(kVariant) :
          kVariant' = [kVariant EXCEPT ![i] = SwapCase(@)]
    /\ UNCHANGED <<kLabel, kKey1, kKey2, kPc, normVars, rankVars, parseVars, runVars>>

RemoveDiacritics ==
    /\ kPc = "input"
    /\ kVariant' = StripMarks(kVariant)
    /\ UNCHANGED <<kLabel, kKey1, kKey2, kPc, normVars, rankVars, parseVars, runVars>>

KeyBoth ==
    /\ kPc = "input"
    /\ kKey1' = name_key(kLabel)
    /\ kKey2' = name_key(kVariant)
    /\ kPc' = "keyed"
    /\ UNCHANGED <<kLabel, kVariant, normVars, rankVars, parseVars, runVars>>

-----------------------------------------------------------------------------
(* SpecRank: add_eu_row, then compute_rank, as main and write_outputs call them *)

AddEuRow ==
    /\ rPc = "input"
    /\ rRows' = add_eu_row(rIn, load_eu_members(rConfig))
    /\ rPc' = "aggregated"
    /\ UNCHANGED <<rIn, rConfig, rRanked, normVars, keyVars, parseVars, runVars>>

ComputeRank ==
    /\ rPc = "aggregated"
    /\ rRanked' = compute_rank(rRows)
    /\ rPc' = "ranked"
    /\ UNCHANGED <<rIn, rConfig, rRows, normVars, keyVars, parseVars, runVars>>

-----------------------------------------------------------------------------
(* SpecParse: parse_medal_table on a table, with the maps of load_ioc_codes *)

NoParse == [rows |-> <<>>, unmapped |-> <<>>]

Parse ==
    /\ pPc = "input"
    /\ LET maps == load_ioc_codes(pCsv)
       IN  pOut' = parse_medal_table(pTable, maps.name_to_noc, maps.noc_to_name)
    /\ pPc' = "parsed"
    /\ UNCHANGED <<pTable, pCsv, normVars, keyVars, rankVars, runVars>>

-----------------------------------------------------------------------------
(* Spec: runs of the two scripts against a page that is revised meanwhile *)

\* one run of fetch_medals.py, with or without --force
Main ==
    /\ run.n < MaxRuns
    /\ \E force \in BOOLEAN :
       \E r \in {main(force, [metaFile |-> metaFile, medalsCsv |-> medalsCsv,
                                medalsJson |-> medalsJson],
                        src, iocCsv, euJson, now + 1)} :
             /\ metaFile' = r.metaFile
             /\ medalsCsv' = r.medalsCsv
             /\ medalsJson' = r.medalsJson
             /\ run' = [n |-> run.n + 1, force |-> force, exit |-> r.exit,
                        said |-> r.said, rev |-> src.rev, rows |-> r.rows,
                        unmapped |-> r.unmapped]
    /\ now' = now + 1
    /\ UNCHANGED <<iocCsv, euJson, src, ghOutput, normVars, keyVars, rankVars, parseVars>>

\* one run of etag_check.py
EtagCheck ==
    /\ ghOutput' = IF etag_check(metaFile, src) THEN "changed=true" ELSE "changed=false"
    /\ ghOutput' # ghOutput
    /\ UNCHANGED <<iocCsv, euJson, src, metaFile, medalsCsv, medalsJson, now, run,
                   normVars, keyVars, rankVars, parseVars>>

\* the page is edited: a new revision with new headers and a new table
Publish ==
    /\ src.rev + 1 \in Revisions
    /\ \E table \in RunTables :
         src' = Page(src.rev + 1, src.mode, table)
    /\ UNCHANGED <<iocCsv, euJson, metaFile, medalsCsv, medalsJson, now, run, ghOutput,
                   normVars, keyVars, rankVars, parseVars>>

-----------------------------------------------------------------------------
(* Specifications *)

InitSpecNorm ==
    /\ nText \in TextsUpTo(NormAlphabet, MaxLen)
    /\ nOnce = <<>> /\ nTwice = <<>> /\ nPc = "input"
    /\ kLabel = <<>> /\ kVariant = <<>> /\ kKey1 = <<>> /\ kKey2 = <<>> /\ kPc = "idle"
    /\ rIn = <<>> /\ rConfig = {} /\ rRows = <<>> /\ rRanked = <<>> /\ rPc = "idle"
    /\ pTable = <<>> /\ pCsv = <<>> /\ pOut = NoParse /\ pPc = "idle"
    /\ iocCsv = <<>> /\ euJson = {} /\ src = NoSource /\ metaFile = <<>>
    /\ medalsCsv = <<>> /\ medalsJson = <<>> /\ now = 0 /\ run = NoRun /\ ghOutput = ""

NextNorm == Normalize \/ Renormalize
SpecNorm == InitSpecNorm /\ [][NextNorm]_vars

InitSpecKey ==
    /\ kLabel \in KeyLabels
    /\ kVariant = kLabel
    /\ kKey1 = <<>> /\ kKey2 = <<>> /\ kPc = "input"
    /\ nText = <<>> /\ nOnce = <<>> /\ nTwice = <<>> /\ nPc = "idle"
    /\ rIn = <<>> /\ rConfig = {} /\ rRows = <<>> /\ rRanked = <<>> /\ rPc = "idle"
    /\ pTable = <<>> /\ pCsv = <<>> /\ pOut = NoParse /\ pPc = "idle"
    /\ iocCsv = <<>> /\ euJson = {} /\ src = NoSource /\ metaFile = <<>>
    /\ medalsCsv = <<>> /\ medalsJson = <<>> /\ now = 0 /\ run = NoRun /\ ghOutput = ""

NextKey == ChangeCase \/ RemoveDiacritics \/ KeyBoth
SpecKey == InitSpecKey /\ [][NextKey]_vars

InitSpecRank ==
    /\ rIn \in TextsUpTo(RankRowPool, MaxRows)
    /\ rConfig \in EuConfigs
    /\ rRows = <<>> /\ rRanked = <<>> /\ rPc = "input"
    /\ nText = <<>> /\ nOnce = <<>> /\ nTwice = <<>> /\ nPc = "idle"
    /\ kLabel = <<>> /\ kVariant = <<>> /\ kKey1 = <<>> /\ kKey2 = <<>> /\ kPc = "idle"
    /\ pTable = <<>> /\ pCsv = <<>> /\ pOut = NoParse /\ pPc = "idle"
    /\ iocCsv = <<>> /\ euJson = {} /\ src = NoSource /\ metaFile = <<>>
    /\ medalsCsv = <<>> /\ medalsJson = <<>> /\ now = 0 /\ run = NoRun /\ ghOutput = ""

NextRank == AddEuRow \/ ComputeRank
SpecRank == InitSpecRank /\ [][NextRank]_vars

InitSpecParse ==
    /\ pTable \in TextsUpTo(ParseRowPool, MaxParseRows)
    /\ pCsv \in RefFiles
    /\ pOut = NoParse /\ pPc = "input"
    /\ nText = <<>> /\ nOnce = <<>> /\ nTwice = <<>> /\ nPc = "idle"
    /\ kLabel = <<>> /\ kVariant = <<>> /\ kKey1 = <<>> /\ kKey2 = <<>> /\ kPc = "idle"
    /\ rIn = <<>> /\ rConfig = {} /\ rRows = <<>> /\ rRanked = <<>> /\ rPc = "idle"
    /\ iocCsv = <<>> /\ euJson = {} /\ src = NoSource /\ metaFile = <<>>
    /\ medalsCsv = <<>> /\ medalsJson = <<>> /\ now = 0 /\ run = NoRun /\ ghOutput = ""

NextParse == Parse
SpecParse == InitSpecParse /\ [][NextParse]_vars

Init ==
    /\ iocCsv \in RunRefFiles
    /\ euJson \in RunEuConfigs
    /\ \E mode \in HeaderModes, table \in RunTables :
          src = Page(1, mode, table)
    /\ metaFile = <<>> /\ medalsCsv = <<>> /\ medalsJson = <<>>
    /\ now = 0 /\ run = NoRun /\ ghOutput = ""
    /\ nText = <<>> /\ nOnce = <<>> /\ nTwice = <<>> /\ nPc = "idle"
    /\ kLabel = <<>> /\ kVariant = <<>> /\ kKey1 = <<>> /\ kKey2 = <<>> /\ kPc = "idle"
    /\ rIn = <<>> /\ rConfig = {} /\ rRows = <<>> /\ rRanked = <<>> /\ rPc = "idle"
    /\ pTable = <<>> /\ pCsv = <<>> /\ pOut = NoParse /\ pPc = "idle"

Next == Main \/ EtagCheck \/ Publish
Spec == Init /\ [][Next]_vars

-----------------------------------------------------------------------------
(* Claims on compute_rank and add_eu_row (SpecRank) *)

\* the row without its rank
Unranked(r) == [f \in DOMAIN r \ {"rank"} |-> r[f]]

Occurrences(rows, x) == Cardinality({i \in 1..Len(rows) : Unranked(rows[i]) = x})

\* C1: compute_rank returns the rows it was given, ordered by descending
\* (gold, silver, bronze, total) and, within equal tuples, by ascending country
\* name; each row's rank is the 1-based position of the first row with its tuple.
C1_RankOrder ==
    rPc = "ranked" =>
        /\ Len(rRanked) = Len(rRows)
        /\ \A i \in 1..Len(rRows) :
              Occurrences(rRanked, Unranked(rRows[i])) = Occurrences(rRows, Unranked(rRows[i]))
        /\ \A i, j \in 1..Len(rRanked) :
              i < j =>
                /\ ~TupleLess(MedalKey(rRanked[i]), MedalKey(rRanked[j]))
                /\ MedalKey(rRanked[i]) = MedalKey(rRanked[j])
                      => ~TextLess(rRanked[j].country, rRanked[i].country)
        /\ \A i \in 1..Len(rRanked) :
              /\ rRanked[i].rank \in 1..i
              /\ MedalKey(rRanked[rRanked[i].rank]) = MedalKey(rRanked[i])
              /\ \A j \in 1..(rRanked[i].rank - 1) :
                    MedalKey(rRanked[j]) # MedalKey(rRanked[i])

\* two rows tied on the medal tuple and in name order share rank 1, and the
\* next distinct tuple has rank 3
C1_Witness ==
    /\ rPc = "ranked"
    /\ Len(rRanked) >= 3
    /\ rRanked[1].rank = 1 /\ rRanked[2].rank = 1 /\ rRanked[3].rank = 3
    /\ TextLess(rRanked[1].country, rRanked[2].country)
    /\ rRows[1].country = rRanked[2].country

RECURSIVE SumAt(_, _)
\* the sum of F over the set of indices
SumAt(F(_), idx) ==
    IF idx = {} THEN 0
    ELSE LET i == CHOOSE i \in idx : TRUE IN F(i) + SumAt(F, idx \ {i})

\* the NOCs configured as EU members
MemberNocs == {m.noc : m \in {x \in rConfig : x.eu_member}}

\* C2: add_eu_row appends exactly one aggregate row whose gold, silver and
\* bronze are the sums over the rows whose NOC is a member and whose total is
\* the sum of the three, and flags as is_eu exactly the rows of member NOCs.
C2_Aggregate ==
    rPc \in {"aggregated", "ranked"} =>
        LET n   == Len(rIn)
            in  == {i \in 1..n : rIn[i].noc \in MemberNocs}
            agg == rRows[n + 1]
        IN  /\ Len(rRows) = n + 1
            /\ agg.noc = EU27
            /\ \A i \in 1..n : rRows[i].noc # EU27
            /\ agg.gold = SumAt(LAMBDA i : rIn[i].gold, in)
            /\ agg.silver = SumAt(LAMBDA i : rIn[i].silver, in)
            /\ agg.bronze = SumAt(LAMBDA i : rIn[i].bronze, in)
            /\ agg.total = agg.gold + agg.silver + agg.bronze
            /\ \A i \in 1..n :
                  /\ rRows[i].is_eu = (rIn[i].noc \in MemberNocs)
                  /\ \A f \in DOMAIN rIn[i] : rRows[i][f] = rIn[i][f]

\* members with (1,0,0) and (0,1,0) and a non-member: the aggregate is (1,1,0),
\* total 2, and only the two members are flagged
C2_Witness ==
    /\ rPc = "aggregated"
    /\ Len(rIn) = 3
    /\ MedalKey(rIn[1]) = <<1, 0, 0, 1>> /\ rIn[1].noc \in MemberNocs
    /\ MedalKey(rIn[2]) = <<0, 1, 0, 1>> /\ rIn[2].noc \in MemberNocs
    /\ rIn[3].gold = 1 /\ rIn[3].noc \notin MemberNocs
    /\ MedalKey(rRows[4]) = <<1, 1, 0, 2>>
    /\ rRows[1].is_eu /\ rRows[2].is_eu /\ ~rRows[3].is_eu

-----------------------------------------------------------------------------
(* Claims on parse_medal_table (SpecParse) *)

\* the label of a table row: its nation cell normalized, then overridden
LabelOf(row) == NameOverride(normalize_text(row.nation))

\* the row is a blank or a "total" row, which the loop passes over
IsSkipped(row) == LabelOf(row) = <<>> \/ StartsWith(LowerText(LabelOf(row)), Total)

\* the row carries a 3-character code
HasCode(row) == Len(normalize_text(row.noc)) = 3

\* the NOC the reference file gives the name with this key, else the empty text
RegistryNoc(csv, key) ==
    IF \E r \in Range(csv) : name_key(r.country_name) = key
    THEN (CHOOSE r \in Range(csv) : name_key(r.country_name) = key).noc
    ELSE <<>>

\* the name the reference file gives the NOC, else the default
RegistryName(csv, noc, default) ==
    IF \E r \in Range(csv) : r.noc = noc
    THEN (CHOOSE r \in Range(csv) : r.noc = noc).country_name
    ELSE default

\* the row has a label with no registry match and carries no 3-character code
IsUnresolved(row, csv) ==
    ~IsSkipped(row) /\ ~HasCode(row) /\ RegistryNoc(csv, name_key(LabelOf(row))) = <<>>

\* the table rows that give a result row, in order
KeptRows(table, csv) ==
    SelectSeq(table, LAMBDA row : ~IsSkipped(row) /\ ~IsUnresolved(row, csv))

\* what Python's int() makes of a numeric cell once its bracketed notes and
\* its non-digits are gone
CellValue(cell) ==
    CASE cell = <<>> -> 0
      [] cell = <<"0">> -> 0
      [] cell = <<"a">> -> 0
      [] cell = <<"1">> -> 1
      [] cell = <<"2">> -> 2
      [] cell = <<"2","[","1","]">> -> 2
      [] cell = <<"5">> -> 5

\* C8: a row's total is gold+silver+bronze when the parsed total is 0 and the
\* parsed total otherwise; so it is the sum whenever the total cell is blank,
\* unparsable or zero.
C8_TotalRepair ==
    pPc = "parsed" =>
        \A kept \in {KeptRows(pTable, pCsv)} :
            /\ Len(pOut.rows) = Len(kept)
            /\ \A k \in 1..Len(kept) :
                  LET g == CellValue(kept[k].gold)
                      s == CellValue(kept[k].silver)
                      b == CellValue(kept[k].bronze)
                      t == CellValue(kept[k].total)
                      r == pOut.rows[k]
                  IN  /\ r.gold = g /\ r.silver = s /\ r.bronze = b
                      /\ r.total = (IF t = 0 THEN g + s + b ELSE t)
                      /\ kept[k].total \in {<<>>, <<"a">>, <<"0">>}
                            => r.total = r.gold + r.silver + r.bronze

\* a parsed total of 0 with (1,1,0) became 2
C8_Witness ==
    /\ pPc = "parsed"
    /\ Len(pTable) >= 1 /\ pTable[1].total = <<"0">>
    /\ Len(pOut.rows) >= 1
    /\ MedalKey(pOut.rows[1]) = <<1, 1, 0, 2>>

\* the NOC of a kept table row, as the claim C9 gives it
NocRule(row, csv, noc) ==
    IF HasCode(row) THEN noc = normalize_text(row.noc)
    ELSE noc = RegistryNoc(csv, name_key(LabelOf(row)))

\* C9, as stated: the NOC is the row's 3-character code if it carries one and
\* nameToNoc[nameKey(label)] otherwise; the country name is nocToName[noc], or
\* the originally extracted label when the registry lacks the NOC.
C9_Original ==
    pPc = "parsed" =>
        \A kept \in {KeptRows(pTable, pCsv)} :
            /\ Len(pOut.rows) = Len(kept)
            /\ \A k \in 1..Len(kept) :
                  /\ NocRule(kept[k], pCsv, pOut.rows[k].noc)
                  /\ pOut.rows[k].country =
                        RegistryName(pCsv, pOut.rows[k].noc, normalize_text(kept[k].nation))

\* C9, amended: as C9, but the fallback country name is the extracted label
\* after the name overrides.
C9_Resolution ==
    pPc = "parsed" =>
        \A kept \in {KeptRows(pTable, pCsv)} :
            /\ Len(pOut.rows) = Len(kept)
            /\ \A k \in 1..Len(kept) :
                  /\ NocRule(kept[k], pCsv, pOut.rows[k].noc)
                  /\ pOut.rows[k].country =
                        RegistryName(pCsv, pOut.rows[k].noc, LabelOf(kept[k]))

\* a row with a code the registry lacks keeps the code and falls back to its
\* overridden label
C9_Witness ==
    /\ pPc = "parsed"
    /\ Len(pTable) >= 1 /\ pTable[1].nation = Korea /\ pTable[1].noc = XYZ
    /\ Len(pOut.rows) >= 1
    /\ pOut.rows[1].noc = XYZ /\ pOut.rows[1].country = SouthKorea

-----------------------------------------------------------------------------
(* Claims on the runs (Spec) *)

\* the last run of fetch_medals.py read the page as it is now and parsed it
RunParsed == run.n > 0 /\ run.rev = src.rev /\ run.said # "No changes detected"

\* the last run did not write medals_eu.csv and medals_eu.json
OutputsNotWritten ==
    /\ medalsJson = <<>> <=> medalsCsv = <<>>
    /\ medalsJson # <<>> =>
          /\ medalsJson[1].last_updated_utc < now
          /\ medalsCsv[1] = medalsJson[1].rows

\* C3, as stated: a row with no registry match and no 3-character code is left
\* out of the rows, the run ends with a non-zero exit and writes no CSV/JSON,
\* and the saved unmapped_countries holds the row's raw label.
C3_Original ==
    RunParsed =>
        \A i \in 1..Len(src.table) :
            IsUnresolved(src.table[i], iocCsv) =>
                /\ run.exit # 0
                /\ Len(run.rows) = Len(KeptRows(src.table, iocCsv))
                /\ OutputsNotWritten
                /\ metaFile # <<>>
                /\ src.table[i].nation \in Range(metaFile[1].unmapped_countries)

\* C3, amended: as C3, for a run that change detection does not end early, and
\* with unmapped_countries holding the row's label after normalization and
\* name overrides.
C3_UnmappedAbort ==
    RunParsed =>
        \A i \in 1..Len(src.table) :
            IsUnresolved(src.table[i], iocCsv) =>
                /\ run.exit # 0
                /\ Len(run.rows) = Len(KeptRows(src.table, iocCsv))
                /\ OutputsNotWritten
                /\ metaFile # <<>>
                /\ metaFile[1].last_update_utc = now
                /\ LabelOf(src.table[i]) \in Range(metaFile[1].unmapped_countries)

\* a run aborted on the label "Peru*", saved as "Peru", beside the outputs of
\* an earlier run
C3_Witness ==
    /\ RunParsed
    /\ run.exit = 1
    /\ \E i \in 1..Len(src.table) : src.table[i].nation = PeruNoted
    /\ metaFile[1].unmapped_countries = <<Peru>>
    /\ medalsJson # <<>>

C5_UniqueNoc ==
    (run.said = "Medal table updated" /\ medalsCsv # <<>>) =>
        LET rows == medalsCsv[1]
        IN  /\ \E i \in 1..Len(rows) : rows[i].noc = EU27
            /\ \A i, j \in 1..Len(rows) : i # j => rows[i].noc # rows[j].noc

\* C10: a run that says "no changes" on the ETag of the page as it is now
\* implies outputs written by a successful run on that revision: an aborted
\* run is not followed by "no changes".
C10_AbortNotMasked ==
    (run.n > 0 /\ run.rev = src.rev /\ ~run.force /\ src.etag # <<>>
       /\ run.said = "No changes detected" /\ run.exit = 0) =>
        /\ medalsJson # <<>>
        /\ medalsJson[1].source_revision_id = src.etag

-----------------------------------------------------------------------------
(* Claims on the text functions (SpecNorm, SpecKey) *)

\* C7: normalize_text is idempotent: normalizing its own result changes
\* nothing, for every input text.
C7_NormalizeIdempotent == nPc = "twice" => nTwice = nOnce

\* C6: name_key gives a label and the same label with diacritics removed
\* and/or letter case changed the same key.
C6_KeyInsensitive == kPc = "keyed" => kKey1 = kKey2

=============================================================================
